---- MODULE Spec2Model ----
(***************************************************************************)
(* A model of generate_editorconfig.py: the per-file analyzer              *)
(* (analyze_file), the aggregator (aggregate_properties,                   *)
(* determine_setting), the renderer (generate_editorconfig) and the        *)
(* control flow of main.                                                   *)
(*                                                                         *)
(* File contents are sequences of bytes (0..255); decoded text is a        *)
(* sequence of Unicode code points.  A Python dict / Counter is a sequence *)
(* of entries in insertion order, because Counter.most_common(1) returns   *)
(* the first entry that has the highest count.  Python 3.9 or later is     *)
(* assumed (math.gcd takes any number of arguments), on a little-endian    *)
(* machine (the byte order of the utf-16 codec without a byte order mark). *)
(***************************************************************************)
EXTENDS Integers, Sequences, FiniteSets, TLC

VARIABLES
    pc,               \* position of main
    fs,               \* the file tree at the start of the run: path -> file
    force,            \* args.force
    files_to_scan,    \* the files the scan loop has not visited yet
    collected,        \* the set built by the glob/walk loop (lines 238-252)
    props,            \* the last record analyze_file returned
    file_properties,  \* extension -> list of kept records
    aggregated,       \* extension -> field -> Counter
    lines,            \* the list generate_editorconfig builds
    content,          \* editorconfig_content, '\n'.join(lines)
    written,          \* the paths opened for writing, in order
    dest_data,        \* what the destination file holds
    exit_status       \* "running", or how the process ended

vars == <<pc, fs, force, files_to_scan, collected, props, file_properties,
          aggregated, lines, content, written, dest_data, exit_status>>

----------------------------------------------------------------------------
(* Values *)

None == "None"
\* indent_size is an int or None; None is 0 here (a width is never 0).
NoneSize == 0

TAB == 9
LF == 10
CR == 13
SPACE == 32

Max(S) == CHOOSE m \in S : \A x \in S : x <= m

----------------------------------------------------------------------------
(* bytes.decode *)

DecodeError == [ok |-> FALSE, text |-> <<>>]

Utf8Len(b) ==
    IF b < 128 THEN 1
    ELSE IF b \in 194..223 THEN 2
    ELSE IF b \in 224..239 THEN 3
    ELSE IF b \in 240..244 THEN 4
    ELSE 0

Utf8SecondLo(b) == CASE b = 224 -> 160 [] b = 240 -> 144 [] OTHER -> 128

Utf8SecondHi(b) == CASE b = 237 -> 159 [] b = 244 -> 143 [] OTHER -> 191

Utf8CodePoint(raw, i, n) ==
    CASE n = 1 -> raw[i]
      [] n = 2 -> (raw[i] - 192) * 64 + (raw[i+1] - 128)
      [] n = 3 -> (raw[i] - 224) * 4096 + (raw[i+1] - 128) * 64 + (raw[i+2] - 128)
      [] n = 4 -> (raw[i] - 240) * 262144 + (raw[i+1] - 128) * 4096
                    + (raw[i+2] - 128) * 64 + (raw[i+3] - 128)

RECURSIVE Utf8From(_, _)
Utf8From(raw, i) ==
    IF i > Len(raw) THEN [ok |-> TRUE, text |-> <<>>]
    ELSE LET n == Utf8Len(raw[i]) IN
         IF n = 0 \/ i + n - 1 > Len(raw) THEN DecodeError
         ELSE IF n >= 2 /\ raw[i+1] \notin Utf8SecondLo(raw[i])..Utf8SecondHi(raw[i])
              THEN DecodeError
         ELSE IF \E k \in 2..(n-1) : raw[i+k] \notin 128..191 THEN DecodeError
         ELSE LET rest == Utf8From(raw, i + n) IN
              IF rest.ok
              THEN [ok |-> TRUE, text |-> <<Utf8CodePoint(raw, i, n)>> \o rest.text]
              ELSE DecodeError

\* raw.decode('utf-8'), strict
decode_utf8(raw) == Utf8From(raw, 1)

\* the 16-bit unit at bytes i, i+1
Utf16Unit(raw, i, little) ==
    IF little THEN raw[i] + 256 * raw[i+1] ELSE 256 * raw[i] + raw[i+1]

RECURSIVE Utf16From(_, _, _)
Utf16From(raw, i, little) ==
    IF i > Len(raw) THEN [ok |-> TRUE, text |-> <<>>]
    ELSE IF i + 1 > Len(raw) THEN DecodeError            \* truncated data
    ELSE LET u == Utf16Unit(raw, i, little) IN
         IF u \in 56320..57343 THEN DecodeError          \* a lone low surrogate
         ELSE IF u \in 55296..56319
         THEN IF i + 3 > Len(raw) THEN DecodeError
              ELSE LET v == Utf16Unit(raw, i + 2, little) IN
                   IF v \notin 56320..57343 THEN DecodeError
                   ELSE LET rest == Utf16From(raw, i + 4, little) IN
                        IF rest.ok
                        THEN [ok |-> TRUE,
                              text |-> <<65536 + (u - 55296) * 1024 + (v - 56320)>>
                                         \o rest.text]
                        ELSE DecodeError
         ELSE LET rest == Utf16From(raw, i + 2, little) IN
              IF rest.ok THEN [ok |-> TRUE, text |-> <<u>> \o rest.text]
              ELSE DecodeError

\* raw.decode('utf-16'), strict: a byte order mark picks the byte order and is
\* dropped; without one the native order is used.
decode_utf16(raw) ==
    IF Len(raw) >= 2 /\ raw[1] = 255 /\ raw[2] = 254 THEN Utf16From(raw, 3, TRUE)
    ELSE IF Len(raw) >= 2 /\ raw[1] = 254 /\ raw[2] = 255 THEN Utf16From(raw, 3, FALSE)
    ELSE Utf16From(raw, 1, TRUE)

\* raw.decode('latin-1', errors='replace'): byte b is code point b; never fails
decode_latin1(raw) == [ok |-> TRUE, text |-> raw]

\* lines 52-61: the text and the charset recorded for it
DetectCharset(raw) ==
    LET u8 == decode_utf8(raw) IN
    IF u8.ok THEN [text |-> u8.text, charset |-> "utf-8"]
    ELSE LET u16 == decode_utf16(raw) IN
         IF u16.ok THEN [text |-> u16.text, charset |-> "utf-16"]
         ELSE [text |-> decode_latin1(raw).text, charset |-> "latin-1"]

----------------------------------------------------------------------------
(* collections.Counter *)

\* MostCommon1 with a tie going to the entry inserted last
MostCommon1_last(counter) ==
    LET m == Max({counter[i].n : i \in 1..Len(counter)})
        i == Max({k \in 1..Len(counter) : counter[k].n = m})
    IN  counter[i].key

\* Counter.most_common(1)[0][0]: the key of the first entry with the highest count
MostCommon1(counter) ==
    LET m == Max({counter[i].n : i \in 1..Len(counter)})
        i == CHOOSE k \in 1..Len(counter) :
                 /\ counter[k].n = m
                 /\ \A j \in 1..(k-1) : counter[j].n < m
    IN  counter[i].key

\* counter[key] += 1, and counter.update([key])
CounterAdd(counter, key) ==
    IF \E i \in 1..Len(counter) : counter[i].key = key
    THEN [i \in 1..Len(counter) |->
            IF counter[i].key = key
            THEN [key |-> key, n |-> counter[i].n + 1]
            ELSE counter[i]]
    ELSE Append(counter, [key |-> key, n |-> 1])

----------------------------------------------------------------------------
(* analyze_file *)

\* str.count of a single character
CountChar(text, c) == Cardinality({i \in 1..Len(text) : text[i] = c})

\* text.count('\r\n')
CountCRLF(text) ==
    Cardinality({i \in 1..(Len(text) - 1) : text[i] = CR /\ text[i+1] = LF})

\* EolCounter with its entries in the order lf, cr, crlf
EolCounter_lf_first(text) ==
    LET crlf_count == CountCRLF(text)
        cr_count == CountChar(text, CR) - crlf_count
        lf_count == CountChar(text, LF) - crlf_count
    IN  << [key |-> "lf", n |-> lf_count],
           [key |-> "cr", n |-> cr_count],
           [key |-> "crlf", n |-> crlf_count] >>

\* lines 64-72
EolCounter(text) ==
    LET crlf_count == CountCRLF(text)
        cr_count == CountChar(text, CR) - crlf_count
        lf_count == CountChar(text, LF) - crlf_count
    IN  << [key |-> "crlf", n |-> crlf_count],
           [key |-> "cr", n |-> cr_count],
           [key |-> "lf", n |-> lf_count] >>

\* line 75
DominantEol(text) ==
    LET eol_counter == EolCounter(text) IN
    IF Len(eol_counter) > 0 THEN MostCommon1(eol_counter) ELSE "lf"

\* the line boundaries of str.splitlines
LineBreaks == {10, 11, 12, 13, 28, 29, 30, 133, 8232, 8233}

RECURSIVE SplitFrom(_, _, _)
SplitFrom(text, i, cur) ==
    IF i > Len(text) THEN (IF cur = <<>> THEN <<>> ELSE <<cur>>)
    ELSE IF text[i] = CR /\ i < Len(text) /\ text[i+1] = LF
         THEN <<cur>> \o SplitFrom(text, i + 2, <<>>)
    ELSE IF text[i] \in LineBreaks
         THEN <<cur>> \o SplitFrom(text, i + 1, <<>>)
    ELSE SplitFrom(text, i + 1, Append(cur, text[i]))

\* text.splitlines()
splitlines(text) == SplitFrom(text, 1, <<>>)

\* len(line) - len(line.lstrip('\t '))
IndentLen(line) ==
    Max({k \in 0..Len(line) : \A j \in 1..k : line[j] \in {TAB, SPACE}})

\* one pass of the loop of lines 86-96
IndentStep(acc, line) ==
    LET k == IndentLen(line) IN
    IF k = Len(line) THEN acc                       \* stripped_line is empty
    ELSE IF k > 0 /\ line[1] = TAB
         THEN [acc EXCEPT !.indent_counter = CounterAdd(@, "tab")]
    ELSE IF k > 0 /\ line[1] = SPACE
         THEN [indent_counter |-> CounterAdd(acc.indent_counter, "space"),
               indent_sizes |-> Append(acc.indent_sizes, k)]
    ELSE acc

RECURSIVE IndentLoop(_, _, _)
IndentLoop(ls, i, acc) ==
    IF i > Len(ls) THEN acc ELSE IndentLoop(ls, i + 1, IndentStep(acc, ls[i]))

\* lines 84-96
IndentScan(text) ==
    IndentLoop(splitlines(text), 1, [indent_counter |-> <<>>, indent_sizes |-> <<>>])

RECURSIVE Gcd(_, _)
Gcd(a, b) == IF b = 0 THEN a ELSE Gcd(b, a % b)

RECURSIVE GcdFrom(_, _, _)
GcdFrom(sizes, i, g) ==
    IF i > Len(sizes) THEN g ELSE GcdFrom(sizes, i + 1, Gcd(g, sizes[i]))

\* IndentSizeGcd taking the smallest width
IndentSizeGcd_min(indent_sizes) ==
    CHOOSE m \in {indent_sizes[i] : i \in 1..Len(indent_sizes)} :
        \A i \in 1..Len(indent_sizes) : m <= indent_sizes[i]

\* line 108
IndentSizeGcd(indent_sizes) ==
    IF Len(indent_sizes) > 1 THEN GcdFrom(indent_sizes, 1, 0) ELSE indent_sizes[1]

\* lines 42-47
InitialProperties ==
    [indent_style |-> None, indent_size |-> NoneSize, eol |-> None, charset |-> None]

\* The body of the try block (lines 49-119): whether it raised, and the
\* properties as they stand when it ends.
AnalyzeBody(file) ==
    IF ~file.readable THEN [raised |-> TRUE, properties |-> InitialProperties]
    ELSE LET d == DetectCharset(file.raw)
             scan == IndentScan(d.text)
             style == IF Len(scan.indent_counter) > 0
                      THEN MostCommon1(scan.indent_counter) ELSE None
             size == IF style = "space" /\ Len(scan.indent_sizes) > 0
                     THEN IndentSizeGcd(scan.indent_sizes) ELSE NoneSize
         IN  [raised |-> FALSE,
              properties |-> [indent_style |-> style, indent_size |-> size,
                              eol |-> DominantEol(d.text), charset |-> d.charset]]

\* analyze_file without the handler of lines 121-122
analyze_file_propagating(file) ==
    [exc |-> AnalyzeBody(file).raised, value |-> AnalyzeBody(file).properties]

\* analyze_file: the handler of lines 121-122 swallows every exception, and
\* line 123 returns the properties.  exc: an exception leaves the function.
analyze_file(file) ==
    [exc |-> FALSE, value |-> AnalyzeBody(file).properties]


----------------------------------------------------------------------------
(* Files and paths *)

\* A path is a directory (relative to the working directory, "" for the
\* directory itself) and a file name, a sequence of code points.
Path(dir, name) == [dir |-> dir, name |-> name]

\* line 22
EXCLUDED_DIRS == {".git", "node_modules", "__pycache__", "venv", "build", "dist"}

\* the characters U+0020..U+005F
AsciiLow ==
    << " ", "!", "\"", "#", "$", "%", "&", "'", "(", ")", "*", "+", ",", "-", ".", "/",
       "0", "1", "2", "3", "4", "5", "6", "7", "8", "9", ":", ";", "<", "=", ">", "?",
       "@", "A", "B", "C", "D", "E", "F", "G", "H", "I", "J", "K", "L", "M", "N", "O",
       "P", "Q", "R", "S", "T", "U", "V", "W", "X", "Y", "Z", "[", "\\", "]", "^", "_" >>

\* the characters U+0061..U+007E
AsciiHigh ==
    << "a", "b", "c", "d", "e", "f", "g", "h", "i", "j", "k", "l", "m", "n", "o",
       "p", "q", "r", "s", "t", "u", "v", "w", "x", "y", "z", "{", "|", "}", "~" >>

\* the one-character str of a printable ASCII code point (U+0060 is left out)
Chr(c) == IF c \in 32..95 THEN AsciiLow[c - 31] ELSE AsciiHigh[c - 96]

\* the str of a sequence of code points, as an f-string formats it
RECURSIVE Str(_)
Str(cps) == IF cps = <<>> THEN "" ELSE Chr(Head(cps)) \o Str(Tail(cps))

\* str.lower, on ASCII
lower(cps) ==
    [i \in 1..Len(cps) |-> IF cps[i] \in 65..90 THEN cps[i] + 32 ELSE cps[i]]

\* os.path.splitext(...)[1] of a file name: from the last dot on, unless only
\* dots come before it
splitext(name) ==
    LET dots == {i \in 1..Len(name) : name[i] = 46} IN
    IF dots = {} THEN <<>>
    ELSE LET dotIndex == Max(dots) IN
         IF \E j \in 1..(dotIndex - 1) : name[j] # 46
         THEN SubSeq(name, dotIndex, Len(name))
         ELSE <<>>

\* lines 35-38
get_file_extension(filepath) == lower(splitext(filepath.name))

\* lines 24-33: the answer of libmagic decides; a failure counts as binary
is_binary_file(file) ==
    IF ~file.magic_ok THEN TRUE ELSE file.mime[1] # "text"

----------------------------------------------------------------------------
(* aggregate_properties, determine_setting, generate_editorconfig *)

\* the truth value of the value of a field (lines 137, 264): None is false
Truthy(f, value) == IF f = "indent_size" THEN value # NoneSize ELSE value # None

EmptyCounters ==
    [indent_style |-> <<>>, indent_size |-> <<>>, eol |-> <<>>, charset |-> <<>>]

\* lines 136-138 for one record
AggregateRecord(counters, p) ==
    [f \in DOMAIN counters |->
        IF Truthy(f, p[f]) THEN CounterAdd(counters[f], p[f]) ELSE counters[f]]

RECURSIVE AggregateList(_, _, _)
AggregateList(props_list, i, counters) ==
    IF i > Len(props_list) THEN counters
    ELSE AggregateList(props_list, i + 1, AggregateRecord(counters, props_list[i]))

\* lines 125-142: the defaultdict gets an extension only when a value is counted
aggregate_properties(fp) ==
    LET touched == {ext \in DOMAIN fp :
                      \E i \in 1..Len(fp[ext]) : \E f \in DOMAIN EmptyCounters :
                          Truthy(f, fp[ext][i][f])}
    IN  [ext \in touched |-> AggregateList(fp[ext], 1, EmptyCounters)]

\* lines 144-149
determine_setting(counter, default) ==
    IF Len(counter) = 0 THEN default ELSE MostCommon1(counter)

\* the order of Python str values: code point by code point, a proper prefix first
LexLess(a, b) ==
    \E k \in 1..(Len(b)) :
        /\ \A j \in 1..(k-1) : j <= Len(a) /\ a[j] = b[j]
        /\ \/ k = Len(a) + 1
           \/ k <= Len(a) /\ a[k] < b[k]

\* Sorted in descending order
RECURSIVE Sorted_descending(_)
Sorted_descending(S) ==
    IF S = {} THEN <<>>
    ELSE LET greatest == CHOOSE x \in S : \A y \in S \ {x} : LexLess(y, x) IN
         <<greatest>> \o Sorted_descending(S \ {greatest})

\* sorted(...) of distinct keys
RECURSIVE Sorted(_)
Sorted(S) ==
    IF S = {} THEN <<>>
    ELSE LET least == CHOOSE x \in S : \A y \in S \ {x} : LexLess(x, y) IN
         <<least>> \o Sorted(S \ {least})

\* lines 153-162
GlobalBlock ==
    << "root = true",
       "",
       "[*]",
       "charset = utf-8",
       "end_of_line = lf",
       "insert_final_newline = true",
       "trim_trailing_whitespace = true",
       "" >>

\* lines 167-189: the lines of one extension
Section(ext, counters) ==
    LET indent_style == determine_setting(counters.indent_style, "space")
        size_line ==
            IF indent_style = "space"
            THEN <<"indent_size = " \o ToString(determine_setting(counters.indent_size, 4))>>
            ELSE IF indent_style = "tab" THEN <<"indent_size = tab">>
            ELSE <<>>
    IN  << "[*" \o Str(ext) \o "]", "indent_style = " \o indent_style >>
        \o size_line
        \o << "end_of_line = " \o determine_setting(counters.eol, "lf"),
              "charset = " \o determine_setting(counters.charset, "utf-8"),
              "" >>

RECURSIVE SectionsFrom(_, _, _)
SectionsFrom(agg, order, i) ==
    IF i > Len(order) THEN <<>>
    ELSE (IF order[i] = <<>> THEN <<>> ELSE Section(order[i], agg[order[i]]))
            \o SectionsFrom(agg, order, i + 1)

\* lines 153-189: the list of lines
generate_lines(agg) == GlobalBlock \o SectionsFrom(agg, Sorted(DOMAIN agg), 1)

\* the join of the lines with a newline between them (line 191)
RECURSIVE join(_)
join(ls) ==
    IF Len(ls) = 0 THEN ""
    ELSE IF Len(ls) = 1 THEN ls[1]
    ELSE ls[1] \o "\n" \o join(Tail(ls))

\* lines 151-191
generate_editorconfig(agg) == join(generate_lines(agg))

----------------------------------------------------------------------------
(* main *)

\* ".editorconfig" in the working directory (line 219)
editorconfig_path ==
    Path("", <<46, 101, 100, 105, 116, 111, 114, 99, 111, 110, 102, 105, 103>>)

\* ScanOne keeping a record that has an indent_style or an eol
ScanOne_either(fp, last_props, filepath) ==
    LET file == fs[filepath] IN
    IF is_binary_file(file)
    THEN [file_properties |-> fp, props |-> last_props, exc |-> FALSE]
    ELSE LET ext == get_file_extension(filepath)
             r == analyze_file(file)
         IN  IF r.exc
             THEN [file_properties |-> fp, props |-> last_props, exc |-> TRUE]
             ELSE IF Truthy("indent_style", r.value.indent_style) \/ Truthy("eol", r.value.eol)
             THEN [file_properties |->
                       [e \in DOMAIN fp \cup {ext} |->
                           IF e = ext
                           THEN Append(IF e \in DOMAIN fp THEN fp[e] ELSE <<>>, r.value)
                           ELSE fp[e]],
                   props |-> r.value, exc |-> FALSE]
             ELSE [file_properties |-> fp, props |-> r.value, exc |-> FALSE]

\* one pass of the loop of lines 255-268 over file_properties: the new
\* file_properties, the record analyzed last, and whether an exception escaped
ScanOne(fp, last_props, filepath) ==
    LET file == fs[filepath] IN
    IF is_binary_file(file)
    THEN [file_properties |-> fp, props |-> last_props, exc |-> FALSE]
    ELSE LET ext == get_file_extension(filepath)
             r == analyze_file(file)
         IN  IF r.exc
             THEN [file_properties |-> fp, props |-> last_props, exc |-> TRUE]
             ELSE IF Truthy("indent_style", r.value.indent_style) /\ Truthy("eol", r.value.eol)
             THEN [file_properties |->
                       [e \in DOMAIN fp \cup {ext} |->
                           IF e = ext
                           THEN Append(IF e \in DOMAIN fp THEN fp[e] ELSE <<>>, r.value)
                           ELSE fp[e]],
                   props |-> r.value, exc |-> FALSE]
             ELSE [file_properties |-> fp, props |-> r.value, exc |-> FALSE]

\* lines 220-222
ExitDestinationExists ==
    /\ pc = "start"
    /\ fs[editorconfig_path].exists /\ ~force
    /\ pc' = "exited"
    /\ exit_status' = "failure"
    /\ UNCHANGED <<fs, force, files_to_scan, collected, props, file_properties,
                   aggregated, lines, content, written, dest_data>>

\* DestinationOk without the test of line 220
DestinationOk_unchecked ==
    /\ pc = "start"
    /\ pc' = "init_magic"
    /\ UNCHANGED <<fs, force, files_to_scan, collected, props, file_properties,
                   aggregated, lines, content, written, dest_data, exit_status>>

\* lines 220-228 otherwise
DestinationOk ==
    /\ pc = "start"
    /\ ~(fs[editorconfig_path].exists /\ ~force)
    /\ pc' = "init_magic"
    /\ UNCHANGED <<fs, force, files_to_scan, collected, props, file_properties,
                   aggregated, lines, content, written, dest_data, exit_status>>

\* lines 231-232
InitMagicOk ==
    /\ pc = "init_magic"
    /\ pc' = "collect"
    /\ UNCHANGED <<fs, force, files_to_scan, collected, props, file_properties,
                   aggregated, lines, content, written, dest_data, exit_status>>

\* lines 233-235
InitMagicFails ==
    /\ pc = "init_magic"
    /\ pc' = "exited"
    /\ exit_status' = "failure"
    /\ UNCHANGED <<fs, force, files_to_scan, collected, props, file_properties,
                   aggregated, lines, content, written, dest_data>>

\* lines 238-252 for the default paths (the working directory): every file under the working
\* directory, the excluded directories left out
CollectFiles ==
    /\ pc = "collect"
    /\ LET found == {p \in DOMAIN fs : fs[p].exists /\ p.dir \notin EXCLUDED_DIRS} IN
       /\ files_to_scan' = found
       /\ collected' = found
    /\ pc' = "scan"
    /\ UNCHANGED <<fs, force, props, file_properties, aggregated, lines, content,
                   written, dest_data, exit_status>>

\* lines 255-268: one pass of the loop; a set is iterated in no fixed order.
\* An exception that leaves the loop body ends the process with a traceback.
ScanFile ==
    /\ pc = "scan"
    /\ \E filepath \in files_to_scan :
         LET r == ScanOne(file_properties, props, filepath) IN
         IF r.exc
         THEN /\ pc' = "crashed"
              /\ exit_status' = "failure"
              /\ UNCHANGED <<files_to_scan, file_properties, props>>
         ELSE /\ files_to_scan' = files_to_scan \ {filepath}
              /\ file_properties' = r.file_properties
              /\ props' = r.props
              /\ UNCHANGED <<pc, exit_status>>
    /\ UNCHANGED <<fs, force, collected, aggregated, lines, content, written, dest_data>>

\* lines 274-279
AggregateAndGenerate ==
    /\ pc = "scan"
    /\ files_to_scan = {}
    /\ aggregated' = aggregate_properties(file_properties)
    /\ lines' = generate_lines(aggregated')
    /\ content' = generate_editorconfig(aggregated')
    /\ pc' = "write"
    /\ UNCHANGED <<fs, force, files_to_scan, collected, props, file_properties,
                   written, dest_data, exit_status>>

\* WriteOk inside the scan loop: the document of the records so far is written
WriteOk_in_loop ==
    /\ pc \in {"scan", "write"}
    /\ written' = Append(written, editorconfig_path)
    /\ dest_data' = "generated"
    /\ pc' = "exited"
    /\ exit_status' = "success"
    /\ UNCHANGED <<fs, force, files_to_scan, collected, props, file_properties,
                   aggregated, lines, content>>

\* lines 281-284
WriteOk ==
    /\ pc = "write"
    /\ written' = Append(written, editorconfig_path)
    /\ dest_data' = "generated"
    /\ pc' = "exited"
    /\ exit_status' = "success"
    /\ UNCHANGED <<fs, force, files_to_scan, collected, props, file_properties,
                   aggregated, lines, content>>

\* lines 282, 285-287: open() fails, the file is as it was
WriteOpenFails ==
    /\ pc = "write"
    /\ pc' = "exited"
    /\ exit_status' = "failure"
    /\ UNCHANGED <<fs, force, files_to_scan, collected, props, file_properties,
                   aggregated, lines, content, written, dest_data>>

\* lines 283, 285-287: open() has truncated the file and write() fails
WriteFails ==
    /\ pc = "write"
    /\ written' = Append(written, editorconfig_path)
    /\ dest_data' = "truncated"
    /\ pc' = "exited"
    /\ exit_status' = "failure"
    /\ UNCHANGED <<fs, force, files_to_scan, collected, props, file_properties,
                   aggregated, lines, content>>

----------------------------------------------------------------------------
(* The file trees of the runs *)

File(raw, mime, magic_ok, readable) ==
    [exists |-> TRUE, raw |-> raw, mime |-> mime, magic_ok |-> magic_ok,
     readable |-> readable]

Absent ==
    [exists |-> FALSE, raw |-> <<>>, mime |-> <<"", "">>, magic_ok |-> FALSE,
     readable |-> FALSE]

TextFile(raw) == File(raw, <<"text", "plain">>, TRUE, TRUE)

\* "    x\n"
FourSpacesLf == <<32, 32, 32, 32, 120, 10>>
\* "\tx\r\n"
TabCrLf == <<9, 120, 13, 10>>
\* "x\n"
NoIndentLf == <<120, 10>>
\* "  x\r  y\r"
TwoSpacesCr == <<32, 32, 120, 13, 32, 32, 121, 13>>

\* a file open() cannot read although libmagic could
Unreadable == File(FourSpacesLf, <<"text", "plain">>, TRUE, FALSE)
\* a file libmagic does not call text
Binary == File(<<0, 255, 10>>, <<"application", "octet-stream">>, TRUE, TRUE)
\* a file libmagic fails on
Undetected == File(FourSpacesLf, <<"text", "plain">>, FALSE, TRUE)

a_py == Path("", <<97, 46, 112, 121>>)
B_PY == Path("", <<66, 46, 80, 89>>)
c_py == Path("", <<99, 46, 112, 121>>)
x_c == Path("", <<120, 46, 99>>)
\* build/gen.py
build_gen_py == Path("build", <<103, 101, 110, 46, 112, 121>>)

Paths == {a_py, B_PY, c_py, x_c, build_gen_py, editorconfig_path}

Choices(p) ==
    IF p = build_gen_py THEN {TextFile(TabCrLf)}
    ELSE IF p = editorconfig_path
    THEN {Absent, TextFile(NoIndentLf), TextFile(FourSpacesLf)}
    ELSE IF p = x_c
    THEN {Absent, TextFile(TwoSpacesCr), Unreadable}
    ELSE IF p = c_py
    THEN {Absent, TextFile(FourSpacesLf), TextFile(TabCrLf), Binary}
    ELSE {Absent, TextFile(FourSpacesLf), TextFile(TabCrLf), TextFile(NoIndentLf),
          Unreadable, Undetected}

Trees ==
    {[p \in Paths |->
        CASE p = a_py -> a
          [] p = B_PY -> b
          [] p = c_py -> c
          [] p = x_c -> x
          [] p = build_gen_py -> g
          [] p = editorconfig_path -> e] :
     a \in Choices(a_py), b \in Choices(B_PY), c \in Choices(c_py),
     x \in Choices(x_c), g \in Choices(build_gen_py), e \in Choices(editorconfig_path)}

Init ==
    /\ pc = "start"
    /\ fs \in Trees
    /\ force \in BOOLEAN
    /\ files_to_scan = {}
    /\ collected = {}
    /\ props = InitialProperties
    /\ file_properties = <<>>
    /\ aggregated = <<>>
    /\ lines = <<>>
    /\ content = ""
    /\ written = <<>>
    /\ dest_data = "original"
    /\ exit_status = "running"

Next ==
    \/ ExitDestinationExists
    \/ DestinationOk
    \/ InitMagicOk
    \/ InitMagicFails
    \/ CollectFiles
    \/ ScanFile
    \/ AggregateAndGenerate
    \/ WriteOk
    \/ WriteOpenFails
    \/ WriteFails

Spec == Init /\ [][Next]_vars

----------------------------------------------------------------------------
(* analyze_file alone, on every input of a bounded set *)

MaxLen == 5
MaxLines == 3
MaxIndent == 4

RECURSIVE SeqsUpTo(_, _)
SeqsUpTo(S, n) ==
    IF n = 0 THEN {<<>>}
    ELSE LET shorter == SeqsUpTo(S, n - 1) IN
         shorter \cup {Append(s, x) : s \in shorter, x \in S}

\* every byte string up to MaxLen over the line terminators, a letter and
\* the byte 0xFF, which is not valid UTF-8
ByteAlphabet == {LF, CR, 120, 255}

ByteStrings == SeqsUpTo(ByteAlphabet, MaxLen)

Spaces(n) == [i \in 1..n |-> SPACE]

Indents ==
    {Spaces(n) : n \in 0..MaxIndent} \cup {<<TAB>>, <<TAB, SPACE>>, <<SPACE, TAB>>}

\* a line with a letter after each indent, and three blank lines
SourceLines ==
    {Append(ind, 120) : ind \in Indents} \cup {<<>>, <<SPACE, SPACE>>, <<TAB>>}

RECURSIVE JoinLF(_)
JoinLF(ls) ==
    IF Len(ls) = 0 THEN <<>>
    ELSE IF Len(ls) = 1 THEN ls[1]
    ELSE ls[1] \o <<LF>> \o JoinLF(Tail(ls))

\* up to MaxLines lines joined by LF
IndentedTexts == {JoinLF(ls) : ls \in SeqsUpTo(SourceLines, MaxLines)}

RawInputs == ByteStrings \cup IndentedTexts

InitAnalyze ==
    /\ pc = "call_analyze_file"
    /\ \/ \E raw \in RawInputs : fs = [p \in {a_py} |-> TextFile(raw)]
       \/ fs = [p \in {a_py} |-> Unreadable]
    /\ force = FALSE
    /\ files_to_scan = {a_py}
    /\ collected = {a_py}
    /\ props = InitialProperties
    /\ file_properties = <<>>
    /\ aggregated = <<>>
    /\ lines = <<>>
    /\ content = ""
    /\ written = <<>>
    /\ dest_data = "original"
    /\ exit_status = "running"

\* line 262: props = analyze_file(filepath, ...)
CallAnalyze ==
    /\ pc = "call_analyze_file"
    /\ LET r == analyze_file(fs[a_py]) IN
       IF r.exc
       THEN pc' = "crashed" /\ UNCHANGED props
       ELSE pc' = "returned" /\ props' = r.value
    /\ UNCHANGED <<fs, force, files_to_scan, collected, file_properties, aggregated,
                   lines, content, written, dest_data, exit_status>>

NextAnalyze == CallAnalyze

SpecAnalyze == InitAnalyze /\ [][NextAnalyze]_vars

----------------------------------------------------------------------------
(* aggregate_properties and generate_editorconfig alone, on every input of *)
(* a bounded set                                                          *)

MaxRecords == 3

Props(style, size, eol, charset) ==
    [indent_style |-> style, indent_size |-> size, eol |-> eol, charset |-> charset]

\* records analyze_file can return
Records ==
    { Props("space", 4, "lf", "utf-8"),
      Props("space", 2, "crlf", "latin-1"),
      Props("tab", NoneSize, "crlf", "utf-8"),
      Props(None, NoneSize, "cr", "utf-16"),
      InitialProperties }

\* "", ".c", ".cpp", ".py"
Extensions == {<<>>, <<46, 99>>, <<46, 99, 112, 112>>, <<46, 112, 121>>}

\* the lists file_properties holds after the records of contributions, each a
\* pair of an extension and a record, were appended in order
Bucket(contributions, ext) ==
    LET idx == {i \in 1..Len(contributions) : contributions[i][1] = ext}
        RECURSIVE Take(_)
        Take(i) ==
            IF i > Len(contributions) THEN <<>>
            ELSE (IF i \in idx THEN <<contributions[i][2]>> ELSE <<>>) \o Take(i + 1)
    IN  Take(1)

Bucketed(contributions) ==
    [ext \in {contributions[i][1] : i \in 1..Len(contributions)} |->
        Bucket(contributions, ext)]

InitAggregate ==
    /\ pc = "call_aggregate_properties"
    /\ \E contributions \in SeqsUpTo(Extensions \X Records, MaxRecords) :
         file_properties = Bucketed(contributions)
    /\ fs = <<>>
    /\ force = FALSE
    /\ files_to_scan = {}
    /\ collected = {}
    /\ props = InitialProperties
    /\ aggregated = <<>>
    /\ lines = <<>>
    /\ content = ""
    /\ written = <<>>
    /\ dest_data = "original"
    /\ exit_status = "running"

\* lines 274 and 279
CallAggregateGenerate ==
    /\ pc = "call_aggregate_properties"
    /\ aggregated' = aggregate_properties(file_properties)
    /\ lines' = generate_lines(aggregated')
    /\ content' = generate_editorconfig(aggregated')
    /\ pc' = "generated"
    /\ UNCHANGED <<fs, force, files_to_scan, collected, props, file_properties,
                   written, dest_data, exit_status>>

NextAggregate == CallAggregateGenerate

SpecAggregate == InitAggregate /\ [][NextAggregate]_vars

----------------------------------------------------------------------------
(* Properties of a run of main *)

Range(seq) == {seq[i] : i \in 1..Len(seq)}

Occurrences(seq, x) == Cardinality({i \in 1..Len(seq) : seq[i] = x})

\* the file libmagic calls text
IsText(p) == fs[p].magic_ok /\ fs[p].mime[1] = "text"

\* what the analysis of a file yields
RecordOf(p) == AnalyzeBody(fs[p]).properties

\* the files whose loop pass is over
Visited == collected \ files_to_scan

\* a visited text file that could be read and has an indent_style and an eol
Valid(p) ==
    /\ IsText(p)
    /\ fs[p].readable
    /\ RecordOf(p).indent_style # None
    /\ RecordOf(p).eol # None

ValidOf(ext) == {p \in Visited : Valid(p) /\ get_file_extension(p) = ext}

ExtensionsSeen == {get_file_extension(p) : p \in collected}

Header(ext) == "[*" \o Str(ext) \o "]"

\* file_properties[ext] holds the records of the files of S, each once per file
HoldsRecordsOf(ext, S) ==
    IF S = {} THEN ext \notin DOMAIN file_properties
    ELSE /\ ext \in DOMAIN file_properties
         /\ Len(file_properties[ext]) = Cardinality(S)
         /\ \A p \in S :
              Occurrences(file_properties[ext], RecordOf(p))
                  = Cardinality({q \in S : RecordOf(q) = RecordOf(p)})

Orders(S) ==
    {o \in [1..Cardinality(S) -> S] : \A i, j \in DOMAIN o : i # j => o[i] # o[j]}

RECURSIVE ScanInOrder(_, _, _)
ScanInOrder(order, i, fp) ==
    IF i > Len(order) THEN fp
    ELSE ScanInOrder(order, i + 1, ScanOne(fp, InitialProperties, order[i]).file_properties)

\* the document of a run that visits the files in the given order
ContentForOrder(order) ==
    generate_editorconfig(aggregate_properties(ScanInOrder(order, 1, <<>>)))

\* C1: the rendered document is the same for every order in which the
\* collected set of files is iterated, ties between values included.
C1_SameDocumentForEveryOrder ==
    pc = "write" => \A o \in Orders(collected) : ContentForOrder(o) = content

\* C2: when the destination exists and force is not set, the run exits with
\* a non-zero status before any file is enumerated, classified or analyzed,
\* and the destination is left as it was.
C2_ExitBeforeScan ==
    (fs[editorconfig_path].exists /\ ~force) =>
        /\ pc \in {"start", "exited"}
        /\ pc = "exited" => exit_status = "failure"
        /\ collected = {}
        /\ files_to_scan = {}
        /\ props = InitialProperties
        /\ file_properties = <<>>
        /\ written = <<>>
        /\ dest_data = "original"

C2_Witness ==
    /\ pc = "exited"
    /\ exit_status = "failure"
    /\ fs[editorconfig_path].exists
    /\ ~force
    /\ fs[a_py].exists

\* C3: a file that cannot be read never aborts the run: analyze_file returns
\* a record, the file is left out of aggregation, the bucket of its extension
\* holds exactly the records of the valid files of the extension, and the
\* extension has a section exactly when it has a valid file.
C3_ReadFailureStaysLocal ==
    /\ pc # "crashed"
    /\ pc \in {"scan", "write"} =>
         /\ \A p \in Visited : IsText(p) /\ ~fs[p].readable => ~Valid(p)
         /\ \A ext \in ExtensionsSeen : HoldsRecordsOf(ext, ValidOf(ext))
    /\ pc = "write" =>
         /\ content = generate_editorconfig(aggregate_properties(file_properties))
         /\ \A ext \in ExtensionsSeen \ {<<>>} :
              Header(ext) \in Range(lines) <=> ValidOf(ext) # {}
         /\ Len(lines) =
              Len(GlobalBlock)
                + 6 * Cardinality({ext \in ExtensionsSeen \ {<<>>} : ValidOf(ext) # {}})

C3_Witness ==
    /\ pc = "write"
    /\ \E p, q \in collected :
         /\ IsText(p) /\ ~fs[p].readable
         /\ Valid(q)
         /\ get_file_extension(p) = get_file_extension(q)
         /\ Header(get_file_extension(p)) \in Range(lines)
    /\ \E p \in collected :
         /\ IsText(p) /\ ~fs[p].readable
         /\ get_file_extension(p) # <<>>
         /\ ValidOf(get_file_extension(p)) = {}
         /\ Header(get_file_extension(p)) \notin Range(lines)

\* whether the record of a visited text file is in the bucket of its extension
Kept(p) ==
    /\ get_file_extension(p) \in DOMAIN file_properties
    /\ RecordOf(p) \in Range(file_properties[get_file_extension(p)])

Votes(counter) ==
    LET RECURSIVE Sum(_)
        Sum(i) == IF i > Len(counter) THEN 0 ELSE counter[i].n + Sum(i + 1)
    IN  Sum(1)

\* C9 as stated: a record is discarded only when both its indent_style and its
\* eol are null; a record with a null indent_style and an eol is kept.
C9_DiscardedOnlyWhenBothNull ==
    pc \in {"scan", "write"} =>
        \A p \in Visited :
            IsText(p) =>
                (Kept(p) <=> ~(RecordOf(p).indent_style = None /\ RecordOf(p).eol = None))

\* C9 as amended: a record is discarded when its indent_style or its eol is
\* null; a text file with no indented line casts no vote for any field, and
\* the votes for end_of_line and charset of an extension are those of the
\* files that have both.
C9_DiscardedWhenEitherNull ==
    /\ pc \in {"scan", "write"} =>
         \A p \in Visited :
             IsText(p) =>
                 (Kept(p) <=> (RecordOf(p).indent_style # None /\ RecordOf(p).eol # None))
    /\ pc = "write" =>
         \A ext \in DOMAIN aggregated :
             LET both == {p \in Visited : /\ IsText(p)
                                          /\ get_file_extension(p) = ext
                                          /\ RecordOf(p).indent_style # None
                                          /\ RecordOf(p).eol # None}
             IN  /\ Votes(aggregated[ext].indent_style) = Cardinality(both)
                 /\ Votes(aggregated[ext].eol) = Cardinality(both)
                 /\ Votes(aggregated[ext].charset) = Cardinality(both)

C9_Witness ==
    /\ pc = "write"
    /\ \E p \in collected :
         /\ IsText(p)
         /\ fs[p].readable
         /\ RecordOf(p).indent_style = None
         /\ RecordOf(p).eol # None
         /\ RecordOf(p).charset # None
         /\ get_file_extension(p) \in DOMAIN aggregated

\* the parts of C10 about when the destination is written
WrittenOnceAtTheEnd ==
    /\ Len(written) <= 1
    /\ written # <<>> =>
         /\ pc = "exited"
         /\ files_to_scan = {}
         /\ \A ext \in ExtensionsSeen : HoldsRecordsOf(ext, ValidOf(ext))
         /\ aggregated = aggregate_properties(file_properties)
         /\ content = generate_editorconfig(aggregated)
    /\ exit_status = "success" => (Len(written) = 1 /\ dest_data = "generated")
    /\ dest_data # "original" => written # <<>>

----------------------------------------------------------------------------
(* Properties of analyze_file *)

\* the text analyze_file works on
AnalyzedText == DetectCharset(fs[a_py].raw).text

Analyzed == pc = "returned" /\ fs[a_py].readable

\* CR immediately followed by LF
CrLfPairs(text) ==
    Cardinality({i \in 1..Len(text) : text[i] = CR /\ i < Len(text) /\ text[i+1] = LF})

\* CR not followed by LF
BareCr(text) ==
    Cardinality({i \in 1..Len(text) : text[i] = CR /\ ~(i < Len(text) /\ text[i+1] = LF)})

\* LF not preceded by CR
BareLf(text) ==
    Cardinality({i \in 1..Len(text) : text[i] = LF /\ ~(i > 1 /\ text[i-1] = CR)})

\* C5: a decoded file with no line terminator at all has eol = lf.
C5_NoTerminatorGivesLf ==
    (Analyzed /\ CrLfPairs(AnalyzedText) = 0 /\ BareCr(AnalyzedText) = 0
              /\ BareLf(AnalyzedText) = 0)
        => props.eol = "lf"

\* C6: with at least one line terminator, eol is the style among crlf, bare cr
\* and bare lf with the highest count; on equal highest counts crlf wins over
\* cr and cr over lf.  So only LF gives lf, only CRLF gives crlf, only CR gives
\* cr, and CRLF strictly most frequent gives crlf.
C6_DominantEol ==
    LET crlf == CrLfPairs(AnalyzedText)
        cr == BareCr(AnalyzedText)
        lf == BareLf(AnalyzedText)
    IN  (Analyzed /\ crlf + cr + lf > 0) =>
            /\ props.eol = (IF crlf >= cr /\ crlf >= lf THEN "crlf"
                            ELSE IF cr >= lf THEN "cr" ELSE "lf")
            /\ (crlf = 0 /\ cr = 0) => props.eol = "lf"
            /\ (cr = 0 /\ lf = 0) => props.eol = "crlf"
            /\ (crlf = 0 /\ lf = 0) => props.eol = "cr"
            /\ (crlf > cr /\ crlf > lf) => props.eol = "crlf"

C6_Witness ==
    /\ Analyzed
    /\ CrLfPairs(AnalyzedText) = 1
    /\ BareCr(AnalyzedText) = 1
    /\ BareLf(AnalyzedText) = 1
    /\ props.eol = "crlf"
    /\ props.charset = "utf-8"

Blank(line) == \A j \in 1..Len(line) : line[j] \in {TAB, SPACE}

\* the number of tabs and spaces before the first other character
Width(line) ==
    (CHOOSE j \in 1..Len(line) :
        /\ line[j] \notin {TAB, SPACE}
        /\ \A k \in 1..(j-1) : line[k] \in {TAB, SPACE}) - 1

AnalyzedLines == splitlines(AnalyzedText)

SpaceStarted ==
    {i \in 1..Len(AnalyzedLines) :
        ~Blank(AnalyzedLines[i]) /\ AnalyzedLines[i][1] = SPACE}

TabStarted ==
    {i \in 1..Len(AnalyzedLines) :
        ~Blank(AnalyzedLines[i]) /\ AnalyzedLines[i][1] = TAB}

SpaceWidths == {Width(AnalyzedLines[i]) : i \in SpaceStarted}

IsGreatestCommonDivisor(g, W) ==
    /\ g >= 1
    /\ \A w \in W : w % g = 0
    /\ \A d \in 1..Max(W) : (\A w \in W : w % d = 0) => d <= g

\* C7: when space-started non-blank lines outnumber tab-started ones,
\* indent_style is space and indent_size is the greatest common divisor of
\* the leading-whitespace run lengths of the space-started non-blank lines: N
\* when every one of them is N, and 2 for a mix of 2 and 4.
C7_SpaceIndentSizeIsGcd ==
    (Analyzed /\ Cardinality(SpaceStarted) > Cardinality(TabStarted)) =>
        /\ props.indent_style = "space"
        /\ IsGreatestCommonDivisor(props.indent_size, SpaceWidths)
        /\ \A n \in SpaceWidths : SpaceWidths = {n} => props.indent_size = n
        /\ SpaceWidths = {2, 4} => props.indent_size = 2

C7_Witness ==
    /\ Analyzed
    /\ Cardinality(SpaceStarted) = 2
    /\ Cardinality(TabStarted) = 1
    /\ SpaceWidths = {2, 4}
    /\ props.indent_style = "space"
    /\ props.indent_size = 2

----------------------------------------------------------------------------
(* Properties of aggregate_properties and generate_editorconfig *)

Generated == pc = "generated"

\* the extensions that get a section
SectionExtensions == DOMAIN aggregated \ {<<>>}

\* how many section extensions come before ext
Rank(ext) == Cardinality({e \in SectionExtensions : LexLess(e, ext)})

\* the largest width a record of the inputs holds
MaxSize == Max({r.indent_size : r \in Records})

\* C4: the document starts with the fixed global block, then holds exactly one
\* section per non-empty extension in ascending order of the extension, none
\* for the empty extension; a section is the header, indent_style, indent_size
\* (an integer for space, the token tab for tab), end_of_line, charset and one
\* blank line.
C4_DocumentLayout ==
    Generated =>
        /\ content = join(lines)
        /\ Len(lines) = 8 + 6 * Cardinality(SectionExtensions)
        /\ SubSeq(lines, 1, 8) =
              << "root = true", "", "[*]", "charset = utf-8", "end_of_line = lf",
                 "insert_final_newline = true", "trim_trailing_whitespace = true", "" >>
        /\ \A ext \in SectionExtensions :
              LET base == 8 + 6 * Rank(ext) IN
              /\ lines[base + 1] = "[*" \o Str(ext) \o "]"
              /\ lines[base + 2] \in {"indent_style = space", "indent_style = tab"}
              /\ lines[base + 2] = "indent_style = space" =>
                    lines[base + 3] \in {"indent_size = " \o ToString(n) : n \in 1..MaxSize}
              /\ lines[base + 2] = "indent_style = tab" =>
                    lines[base + 3] = "indent_size = tab"
              /\ lines[base + 4] \in
                    {"end_of_line = lf", "end_of_line = crlf", "end_of_line = cr"}
              /\ lines[base + 5] \in
                    {"charset = utf-8", "charset = utf-16", "charset = latin-1"}
              /\ lines[base + 6] = ""

C4_Witness ==
    /\ Generated
    /\ Cardinality(SectionExtensions) = 3
    /\ <<>> \notin DOMAIN aggregated
    /\ "indent_size = tab" \in Range(lines)
    /\ "indent_size = 2" \in Range(lines)

\* the records contributed for ext that have a value for field f, in order
Voters(ext, f) ==
    {i \in 1..Len(file_properties[ext]) : Truthy(f, file_properties[ext][i][f])}

\* the value of field f most voters of ext report, the one observed first when
\* several are reported equally often; the default when there is no voter
Winner(ext, f, default) ==
    LET list == file_properties[ext]
        voters == Voters(ext, f)
        Count(v) == Cardinality({i \in voters : list[i][f] = v})
        First(v) == CHOOSE i \in voters :
                        list[i][f] = v /\ \A j \in voters : list[j][f] = v => i <= j
    IN  IF voters = {} THEN default
        ELSE CHOOSE v \in {list[i][f] : i \in voters} :
                 \A w \in {list[i][f] : i \in voters} :
                     \/ Count(w) < Count(v)
                     \/ Count(w) = Count(v) /\ First(v) <= First(w)

\* the position of the header of the section of ext
SectionAt(ext) == CHOOSE i \in 1..Len(lines) : lines[i] = "[*" \o Str(ext) \o "]"

\* the lines for indent_style, end_of_line and charset of every section
ModeOfStyleEolCharset ==
    \A ext \in SectionExtensions :
        LET at == SectionAt(ext) IN
        /\ lines[at + 1] = "indent_style = " \o Winner(ext, "indent_style", "space")
        /\ lines[at + 3] = "end_of_line = " \o Winner(ext, "eol", "lf")
        /\ lines[at + 4] = "charset = " \o Winner(ext, "charset", "utf-8")

\* C8 as stated: for every extension and each of the four fields
\* independently, the emitted value is the value most records report, a tie
\* going to the value observed first, and the default (space, 4, lf, utf-8)
\* only when no record has a value.  For indent_size the case stated here is
\* the one with a record that has a value.
C8_EveryFieldIsItsMode ==
    Generated =>
        /\ ModeOfStyleEolCharset
        /\ \A ext \in SectionExtensions :
              Voters(ext, "indent_size") # {} =>
                  lines[SectionAt(ext) + 2] =
                      "indent_size = " \o ToString(Winner(ext, "indent_size", 4))

\* C8 as amended: the same for indent_style, end_of_line and charset; the
\* emitted indent_size is the value most records report (first observed on a
\* tie, 4 when none has one) when the emitted indent_style is space, and the
\* token tab when the emitted indent_style is tab.
C8_ModeAndTabSize ==
    Generated =>
        /\ ModeOfStyleEolCharset
        /\ \A ext \in SectionExtensions :
              lines[SectionAt(ext) + 2] =
                  (IF Winner(ext, "indent_style", "space") = "space"
                   THEN "indent_size = " \o ToString(Winner(ext, "indent_size", 4))
                   ELSE "indent_size = tab")
        /\ \A ext \in SectionExtensions :
              LET list == file_properties[ext]
                  at == SectionAt(ext)
              IN  (/\ Len(list) = 3
                   /\ Occurrences(list, Props("space", 4, "lf", "utf-8")) = 2
                   /\ Occurrences(list, Props("tab", NoneSize, "crlf", "utf-8")) = 1)
                  => SubSeq(lines, at + 1, at + 4) =
                        << "indent_style = space", "indent_size = 4",
                           "end_of_line = lf", "charset = utf-8" >>

C8_Witness ==
    /\ Generated
    /\ \E ext \in SectionExtensions :
         LET list == file_properties[ext] IN
         /\ Len(list) = 3
         /\ list[1].indent_style = "tab"
         /\ list[2].indent_style = "space"
         /\ list[3].indent_style = None
         /\ list[1].eol # list[2].eol
         /\ list[3].eol = None
         /\ lines[SectionAt(ext) + 1] = "indent_style = tab"
         /\ lines[SectionAt(ext) + 2] = "indent_size = tab"
         /\ lines[SectionAt(ext) + 3] = "end_of_line = " \o list[1].eol

====
